---- MODULE Spec2Model ----
(***************************************************************************)
(* Password strength analyzer: assess_password and its helpers             *)
(* (src/password_strength_analyzer/analyzer.py).                           *)
(*                                                                         *)
(* Strings are sequences of one-character strings.  Floats are IEEE-754    *)
(* doubles, held exactly as naturals counted in units of 2^-55 and stored  *)
(* as four 16-bit limbs (least significant first); every value the scorer  *)
(* can produce is below 2 and is a multiple of that unit.                  *)
(***************************************************************************)
EXTENDS Integers, Sequences, FiniteSets, TLC

----------------------------------------------------------------------------
(* Bounds of the model                                                     *)

\* longest password enumerated exhaustively over Alphabet
MaxLen == 2
\* number of sampled outcomes of the secure random source
MaxStreams == 2

----------------------------------------------------------------------------
(* Characters (ASCII part of Python's str methods)                         *)

LowerAlpha == <<"a","b","c","d","e","f","g","h","i","j","k","l","m",
                "n","o","p","q","r","s","t","u","v","w","x","y","z">>
UpperAlpha == <<"A","B","C","D","E","F","G","H","I","J","K","L","M",
                "N","O","P","Q","R","S","T","U","V","W","X","Y","Z">>
DigitChars == <<"0","1","2","3","4","5","6","7","8","9">>
\* string.punctuation (the backquote has no TLA+ string literal and is left out)
Punctuation == {"!","\"","#","$","%","&","'","(",")","*","+",",","-",".","/",
                ":",";","<","=",">","?","@","[","\\","]","^","_","{","|","}",
                "~"}
Whitespace == {" ", "\t", "\n", "\r"}

Range(s) == {s[i] : i \in 1..Len(s)}

Max(a, b) == IF a >= b THEN a ELSE b

IsLowerChar(c) == c \in Range(LowerAlpha)
IsUpperChar(c) == c \in Range(UpperAlpha)
IsDigitChar(c) == c \in Range(DigitChars)

LowerChar(c) ==
    IF IsUpperChar(c)
    THEN LowerAlpha[CHOOSE i \in 1..26 : UpperAlpha[i] = c]
    ELSE c
UpperChar(c) ==
    IF IsLowerChar(c)
    THEN UpperAlpha[CHOOSE i \in 1..26 : LowerAlpha[i] = c]
    ELSE c

\* str.lower(), str.upper()
Lower(s) == [i \in 1..Len(s) |-> LowerChar(s[i])]
Upper(s) == [i \in 1..Len(s) |-> UpperChar(s[i])]

\* needle in hay  (Python: the empty string is in every string)
Contains(hay, needle) ==
    \E i \in 0..(Len(hay) - Len(needle)) :
        SubSeq(hay, i + 1, i + Len(needle)) = needle

\* str.strip()
RECURSIVE LStrip(_)
LStrip(s) == IF s # <<>> /\ Head(s) \in Whitespace THEN LStrip(Tail(s)) ELSE s
RECURSIVE RStrip(_)
RStrip(s) ==
    IF s # <<>> /\ s[Len(s)] \in Whitespace
    THEN RStrip(SubSeq(s, 1, Len(s) - 1))
    ELSE s
Strip(s) == RStrip(LStrip(s))

\* str.split(sep): the pieces between the occurrences of the character sep
RECURSIVE Split(_, _)
Split(s, sep) ==
    IF \E i \in 1..Len(s) : s[i] = sep
    THEN LET k == CHOOSE i \in 1..Len(s) :
                      s[i] = sep /\ \A j \in 1..(i - 1) : s[j] # sep
         IN  <<SubSeq(s, 1, k - 1)>> \o Split(SubSeq(s, k + 1, Len(s)), sep)
    ELSE <<s>>

----------------------------------------------------------------------------
(* IEEE-754 double arithmetic on values in [0, 2), unit 2^-55              *)

Base == 2 ^ 16

BigAdd(a, b) ==
    LET s0 == a[1] + b[1]
        s1 == a[2] + b[2] + (s0 \div Base)
        s2 == a[3] + b[3] + (s1 \div Base)
        s3 == a[4] + b[4] + (s2 \div Base)
    IN  <<s0 % Base, s1 % Base, s2 % Base, s3>>

BigMulSmall(a, m) ==
    LET s0 == a[1] * m
        s1 == a[2] * m + (s0 \div Base)
        s2 == a[3] * m + (s1 \div Base)
        s3 == a[4] * m + (s2 \div Base)
    IN  <<s0 % Base, s1 % Base, s2 % Base, s3>>

\* quotient and remainder of a by the small divisor d
BigDivSmall(a, d) ==
    LET q3 == a[4] \div d
        r3 == a[4] % d
        n2 == r3 * Base + a[3]
        n1 == (n2 % d) * Base + a[2]
        n0 == (n1 % d) * Base + a[1]
    IN  [q |-> <<n0 \div d, n1 \div d, n2 \div d, q3>>, r |-> n0 % d]

BigLess(a, b) ==
    \E i \in 1..4 : a[i] < b[i] /\ \A j \in (i + 1)..4 : a[j] = b[j]
BigLeq(a, b) == a = b \/ BigLess(a, b)

\* spacing of the doubles around x: 2^-55 below 0.25, doubling per binade
UlpUnits(x) ==
    IF x[4] < 32 THEN 1 ELSE IF x[4] < 64 THEN 2 ELSE IF x[4] < 128 THEN 4 ELSE 8

\* round-to-nearest, ties-to-even, of the exact quotient num / den
RoundQuotient(num, den) ==
    LET u  == UlpUnits(BigDivSmall(num, den).q)
        qr == BigDivSmall(num, den * u)
        up == 2 * qr.r > den * u \/ (2 * qr.r = den * u /\ qr.q[1] % 2 = 1)
        q  == IF up THEN BigAdd(qr.q, <<1, 0, 0, 0>>) ELSE qr.q
    IN  BigMulSmall(q, u)

\* the double a decimal literal n/100 denotes (n = 0 or 13 <= n < 200)
Dec(n) == RoundQuotient(<<0, 0, 0, n * 128>>, 100)

\* a + b on doubles
FAdd(a, b) == RoundQuotient(BigAdd(a, b), 1)

\* min(a, b) on doubles
FMin(a, b) == IF BigLess(b, a) THEN b ELSE a

----------------------------------------------------------------------------
(* Pure helpers of analyzer.py                                             *)

\* Python's None where the other values are strings, records or tuples
None == "None"
\* an Optional[bool] or Optional[int]: Null is None, Some(v) is the value v
Null == <<>>
Some(v) == <<v>>

\* the reason strings appended by assess_password
TooShort         == "Too short (under 8 characters)"
ShorterThanRec   == "Shorter than recommended (12+ characters)"
LengthOk         == "Length meets recommended minimum"
LimitedVariety   == "Limited character variety"
MultipleCats     == "Uses multiple character categories"
SequenceReason   == "Contains sequential or keyboard patterns"
RepetitionReason == "Contains repeated characters or low entropy"
SubstReason      == "Uses predictable substitutions of common words"
OfflineReason    == "Matches an offline breached password pattern"
HibpFound        == "Found in Have I Been Pwned password corpus"
HibpNotFound     == "Not found in Have I Been Pwned password corpus"
HibpUnavailable  == "Have I Been Pwned lookup unavailable"

sequences ==
    << LowerAlpha, UpperAlpha, DigitChars,
       <<"q","w","e","r","t","y","u","i","o","p">>,
       <<"a","s","d","f","g","h","j","k","l">>,
       <<"z","x","c","v","b","n","m">> >>

_contains_sequence(password) ==
    \E k \in 1..Len(sequences) :
        \E i \in 0..(Len(sequences[k]) - 3) :
            Contains(password, SubSeq(sequences[k], i + 1, i + 3))

_contains_repetition(password) ==
    \/ Cardinality(Range(password)) <= Max(1, Len(password) \div 4)
    \/ \E char \in Range(password) : Contains(password, <<char, char, char>>)

\* substitutions without the digit entries
SubstitutionsNoDigits(c) ==
    CASE c = "@" -> "a"
      [] c = "$" -> "s"
      [] c = "!" -> "i"
      [] OTHER   -> c

substitutions(c) ==
    CASE c = "@" -> "a"
      [] c = "0" -> "o"
      [] c = "1" -> "l"
      [] c = "3" -> "e"
      [] c = "$" -> "s"
      [] c = "!" -> "i"
      [] OTHER   -> c

common_words ==
    { <<"p","a","s","s","w","o","r","d">>, <<"a","d","m","i","n">>,
      <<"w","e","l","c","o","m","e">>, <<"d","r","a","g","o","n">>,
      <<"f","o","o","t","b","a","l","l">>, <<"m","o","n","k","e","y">> }

_check_substitutions(password) ==
    LET normalized == [i \in 1..Len(password) |->
                          substitutions(LowerChar(password[i]))]
    IN  \E word \in common_words : Contains(normalized, word)

\* _format_risk_label with score > 0.75 for score >= 0.75
LabelStrictHigh(s) ==
    IF BigLess(Dec(75), s) THEN "high"
    ELSE IF BigLeq(Dec(45), s) THEN "medium"
    ELSE "low"

_format_risk_label(s) ==
    IF BigLeq(Dec(75), s) THEN "high"
    ELSE IF BigLeq(Dec(45), s) THEN "medium"
    ELSE "low"

\* _offline_breach_match without lower() on the password
MatchCaseSensitive(password, breached) ==
    LET normalized == Strip(password)
    IN  \/ normalized \in breached
        \/ \E entry \in breached : entry # <<>> /\ Contains(normalized, entry)

_offline_breach_match(password, breached) ==
    LET normalized == Lower(Strip(password))
    IN  \/ normalized \in breached
        \/ \E entry \in breached : entry # <<>> /\ Contains(normalized, entry)

\* number of character categories present (lines 156-163)
categories(password) ==
    LET Has(P(_)) == IF \E i \in 1..Len(password) : P(password[i]) THEN 1 ELSE 0
        IsPunct(c) == c \in Punctuation
    IN  Has(IsLowerChar) + Has(IsUpperChar) + Has(IsDigitChar) + Has(IsPunct)

----------------------------------------------------------------------------
(* Breach corpus files                                                     *)

BREACHED_LIST_PATHS == <<"breached_passwords.txt", "rockyou.txt">>

\* what a path of BREACHED_LIST_PATHS can be on disk: absent, present but
\* not readable (read_text raises), or UTF-8 text
Missing    == [kind |-> "missing", text |-> <<>>]
Unreadable == [kind |-> "unreadable", text |-> <<>>]
TextA == [kind |-> "text",
          text |-> <<"#"," ","l","i","s","t","\n","\n"," ","A","b"," ","\n",
                     "p","a","s","s","w","o","r","d","\n">>]
TextB == [kind |-> "text",
          text |-> <<"a","1","\n","#","x","\n","A","A","A","\n">>]
Files == {Missing, Unreadable, TextA, TextB}

\* str.splitlines() with the line breaks "\n", "\r" and "\r\n"
RECURSIVE splitlines(_)
splitlines(s) ==
    IF s = <<>> THEN <<>>
    ELSE IF \E i \in 1..Len(s) : s[i] \in {"\n", "\r"}
    THEN LET k == CHOOSE i \in 1..Len(s) :
                      /\ s[i] \in {"\n", "\r"}
                      /\ \A j \in 1..(i - 1) : s[j] \notin {"\n", "\r"}
             next == IF s[k] = "\r" /\ k < Len(s) /\ s[k + 1] = "\n"
                     THEN k + 2 ELSE k + 1
         IN  <<SubSeq(s, 1, k - 1)>> \o splitlines(SubSeq(s, next, Len(s)))
    ELSE <<s>>

\* the entries one readable file contributes (lines 37-41)
FileEntries(text) ==
    LET lines == splitlines(text)
    IN  { Lower(Strip(lines[i])) :
            i \in { j \in 1..Len(lines) :
                      /\ Strip(lines[j]) # <<>>
                      /\ Head(Strip(lines[j])) # "#" } }

\* _load_breached_passwords over the files of disk, from path i on, with the
\* entries gathered so far: the set returned or the exception raised, and the
\* file operations performed
RECURSIVE LoadFrom(_, _, _, _)
LoadFrom(disk, i, breached, ops) ==
    IF i > Len(BREACHED_LIST_PATHS)
    THEN [exc |-> None, breached |-> breached, ops |-> ops]
    ELSE LET path == BREACHED_LIST_PATHS[i]
             seen == Append(ops, <<"exists", path>>)
         IN  IF disk[path].kind = "missing"
             THEN LoadFrom(disk, i + 1, breached, seen)
             ELSE IF disk[path].kind = "unreadable"
             THEN [exc |-> "OSError", breached |-> breached,
                   ops |-> Append(seen, <<"read_text", path>>)]
             ELSE LoadFrom(disk, i + 1,
                           breached \cup FileEntries(disk[path].text),
                           Append(seen, <<"read_text", path>>))

_load_breached_passwords(disk) == LoadFrom(disk, 1, {}, <<>>)

----------------------------------------------------------------------------
(* Online lookup                                                           *)

\* hashlib.sha1(...).hexdigest() is a library function: lower-case hex
\* digests of 40 characters.  HexA and HexB are the digests of "ba1a" and
\* "c@ca", which share their first five characters; HexP is the digest of
\* "password".
HexA == <<"a","5","6","c","8","d","9","7","f","a","7","7","b","0","7","a","f",
          "1","f","b","e","c","a","3","a","e","0","c","c","b","7","7","d","7",
          "8","9","4","2","8","d">>
HexB == <<"a","5","6","c","8","a","1","8","8","d","1","2","4","8","7","4","4",
          "5","3","2","0","8","0","c","e","2","4","2","6","7","3","9","5","f",
          "e","c","5","3","4","0">>
HexP == <<"5","b","a","a","6","1","e","4","c","9","b","9","3","f","3","f","0",
          "6","8","2","2","5","0","b","6","c","f","8","3","3","1","b","7","e",
          "e","6","8","f","d","8">>
HexDigests == {HexA, HexB, HexP}

\* the digests hexdigest() can return for a password: the known one, or any
\* sample digest for a password whose digest the model does not tabulate
Sha1Hex(password) ==
    CASE password = <<"b","a","1","a">> -> {HexA}
      [] password = <<"c","@","c","a">> -> {HexB}
      [] password = <<"p","a","s","s","w","o","r","d">> -> {HexP}
      [] OTHER -> HexDigests

UrlBase == <<"h","t","t","p","s",":","/","/","a","p","i",".","p","w","n","e",
             "d","p","a","s","s","w","o","r","d","s",".","c","o","m","/","r",
             "a","n","g","e","/">>
UserAgentName == <<"U","s","e","r","-","A","g","e","n","t">>
UserAgent == <<"P","a","s","s","w","o","r","d","S","t","r","e","n","g","t","h",
               "A","n","a","l","y","z","e","r">>

HashPrefix(sha1_hash) == SubSeq(sha1_hash, 1, 5)
HashSuffix(sha1_hash) == SubSeq(sha1_hash, 6, Len(sha1_hash))

\* HibpRequestOf with the whole digest in the URL
RequestWithFullHash(sha1_hash) ==
    [ url     |-> UrlBase \o sha1_hash,
      headers |-> { [name |-> UserAgentName, value |-> UserAgent] } ]

\* the urllib Request built from the digest (lines 119-121)
HibpRequestOf(sha1_hash) ==
    [ url     |-> UrlBase \o HashPrefix(sha1_hash),
      headers |-> { [name |-> UserAgentName, value |-> UserAgent] } ]

\* the state of request and answer while no lookup is under way
NoRequest == [url |-> <<>>, headers |-> {}]
NoAnswer  == [kind |-> "none", text |-> <<>>]

IsDigits(s) == s # <<>> /\ \A i \in 1..Len(s) : IsDigitChar(s[i])

DigitValue(c) == (CHOOSE i \in 1..10 : DigitChars[i] = c) - 1

\* int(s) for a string of decimal digits
RECURSIVE ParseInt(_)
ParseInt(s) ==
    IF s = <<>> THEN 0
    ELSE 10 * ParseInt(SubSeq(s, 1, Len(s) - 1)) + DigitValue(s[Len(s)])

\* ScanLines comparing the candidate suffix as it stands, without upper()
RECURSIVE ScanLinesCaseSensitive(_, _)
ScanLinesCaseSensitive(lines, suffix) ==
    IF lines = <<>>
    THEN [exc |-> None, found |-> Some(FALSE), count |-> Some(0)]
    ELSE LET line  == Head(lines)
             parts == Split(line, ":")
         IN  IF line = <<>> THEN ScanLinesCaseSensitive(Tail(lines), suffix)
             ELSE IF Len(parts) # 2
             THEN [exc |-> "ValueError", found |-> Null, count |-> Null]
             ELSE IF Strip(parts[1]) = suffix
             THEN IF IsDigits(Strip(parts[2]))
                  THEN [exc |-> None, found |-> Some(TRUE),
                        count |-> Some(ParseInt(Strip(parts[2])))]
                  ELSE [exc |-> "ValueError", found |-> Null, count |-> Null]
             ELSE ScanLinesCaseSensitive(Tail(lines), suffix)

\* the loop over body.splitlines() (lines 127-133): the pair returned, or the
\* exception a line raises
RECURSIVE ScanLines(_, _)
ScanLines(lines, suffix) ==
    IF lines = <<>> THEN [exc |-> None, found |-> Some(FALSE), count |-> Some(0)]
    ELSE LET line  == Head(lines)
             parts == Split(line, ":")
         IN  IF line = <<>> THEN ScanLines(Tail(lines), suffix)
             ELSE IF Len(parts) # 2
             THEN [exc |-> "ValueError", found |-> Null, count |-> Null]
             ELSE IF Upper(Strip(parts[1])) = suffix
             THEN IF IsDigits(Strip(parts[2]))
                  THEN [exc |-> None, found |-> Some(TRUE),
                        count |-> Some(ParseInt(Strip(parts[2])))]
                  ELSE [exc |-> "ValueError", found |-> Null, count |-> Null]
             ELSE ScanLines(Tail(lines), suffix)

\* What the remote end can do to the request.  urlopen raises URLError (no
\* connection, timeout while connecting) or HTTPError (error status);
\* response.read() raises TimeoutError when the body stalls; decode raises
\* UnicodeDecodeError when the bytes are not UTF-8; otherwise the body text.
Rec(suffix, count) == suffix \o <<":">> \o count \o <<"\r", "\n">>
SufA == HashSuffix(Upper(HexA))
SufB == HashSuffix(Upper(HexB))
SufP == HashSuffix(Upper(HexP))
BodyHitA     == Rec(SufP, <<"2">>) \o Rec(SufA, <<"1","2">>) \o Rec(SufA, <<"9">>)
BodyLowerB   == Rec(<<" ">> \o Lower(SufB), <<" ","7"," ">>)
BodyZeroP    == Rec(SufP, <<"0">>)
BodyNone     == <<>>
BodyBlank    == <<"\n","\r","\n">>
BodyNoColon  == <<"g","a","r","b","a","g","e","\n">>
BodyThree    == <<"A",":","B",":","C","\n">>
BodyBadCount == Rec(SufA, <<"x">>)
BodyMixedB   == Rec(Lower(SufB), <<"4">>) \o Rec(SufB, <<"8">>)
Bodies == { BodyHitA, BodyLowerB, BodyMixedB, BodyZeroP, BodyNone, BodyBlank,
            BodyNoColon, BodyThree, BodyBadCount }

NetFailures == {"URLError", "HTTPError", "TimeoutError", "UnicodeDecodeError"}
NetOutcomes ==
    [kind : NetFailures, text : {<<>>}] \cup [kind : {"body"}, text : Bodies]

\* _hibp_lookup answering (False, 0) where it should answer (False, None)
LookupFailureAsZero(sha1_hash, out) ==
    IF out.kind \in {"URLError", "HTTPError"}
    THEN [exc |-> None, found |-> Some(FALSE), count |-> Some(0)]
    ELSE IF out.kind # "body"
    THEN [exc |-> out.kind, found |-> Null, count |-> Null]
    ELSE ScanLines(splitlines(out.text), HashSuffix(sha1_hash))

\* _hibp_lookup from the answer on (lines 122-133)
_hibp_lookup(sha1_hash, out) ==
    IF out.kind \in {"URLError", "HTTPError"}
    THEN [exc |-> None, found |-> Some(FALSE), count |-> Null]
    ELSE IF out.kind # "body"
    THEN [exc |-> out.kind, found |-> Null, count |-> Null]
    ELSE ScanLines(splitlines(out.text), HashSuffix(sha1_hash))

----------------------------------------------------------------------------
(* Suggestions                                                             *)

words == << <<"o","r","b","i","t">>, <<"c","o","b","a","l","t">>,
            <<"h","a","r","b","o","r">>, <<"f","a","l","c","o","n">>,
            <<"e","m","b","e","r">>, <<"s","a","g","e">>,
            <<"v","i","v","i","d">> >>
symbols == <<"!","@","#","$","%">>
ascii_letters == LowerAlpha \o UpperAlpha
SuggestionCount == 3

\* secrets.choice(pool): draw number j of the sampled random stream
choice(pool, stream, j) == pool[((stream * (j + 1) + j) % Len(pool)) + 1]

\* str.capitalize()
Capitalize(w) ==
    IF w = <<>> THEN w ELSE <<UpperChar(w[1])>> \o Lower(Tail(w))

\* one pass of the loop body (lines 97-100); it makes five draws
Mixed(stream, k) ==
    LET j      == 5 * (k - 1)
        word   == choice(words, stream, j)
        suffix == <<choice(DigitChars, stream, j + 1),
                    choice(DigitChars, stream, j + 2)>>
        symbol == choice(symbols, stream, j + 3)
    IN  Capitalize(word) \o <<symbol>> \o suffix
            \o <<choice(ascii_letters, stream, j + 4)>>

\* _generate_suggestions returning the list before the loop filled it
SuggestNothing(password, count, stream) == <<>>

_generate_suggestions(password, count, stream) ==
    LET suggestions == [k \in 1..count |-> Mixed(stream, k)]
    IN  IF suggestions = <<>> THEN <<password>> ELSE suggestions

----------------------------------------------------------------------------
(* Inputs                                                                  *)

Alphabet == {"a", "b", "A", "1", "@", " "}

SamplePasswords ==
    { <<"P","@","s","s","w","0","r","d","1","2","3">>,
      <<"P","a","s","s","w","o","r","d","1","2","3","!","!","!">>,
      <<"T","r","0","u","b","4","d","o","r","&","Z","e","b","r","a">>,
      <<"S","u","m","m","e","r","2","0","2","4","x","y">>,
      <<"Q","w","e","r","t","y","1","2">>,
      <<"p","a","s","s","w","o","r","d">>,
      <<"b","a","1","a">>, <<"c","@","c","a">>,
      <<"a","a","a">>, <<"a","A","1">>, <<" ","A","b"," ">> }

Passwords ==
    UNION { [1..n -> Alphabet] : n \in 0..MaxLen } \cup SamplePasswords

----------------------------------------------------------------------------
(* State                                                                   *)

VARIABLES
    disk,             \* the file behind each path of BREACHED_LIST_PATHS
    pc,               \* position of the running call of assess_password
    password,         \* its argument password
    include_hibp,     \* its argument include_hibp
    breached_offline, \* local of assess_password
    score,            \* local of assess_password (a double)
    reasons,          \* local of assess_password
    breached_online,  \* local of assess_password
    hibp_count,       \* local of assess_password
    sha1_hash,        \* local of _hibp_lookup
    request,          \* the request handed to urlopen, NoRequest before
    answer,           \* what urlopen and read produced, NoAnswer before
    fired,            \* the signals whose increment was added to score
    ops,              \* file, network and random-source operations so far
    exception,        \* the exception the call raised, None if none
    result            \* the PasswordAssessment returned, None before

vars == << disk, pc, password, include_hibp, breached_offline, score, reasons,
           breached_online, hibp_count, sha1_hash, request, answer, fired,
           ops, exception, result >>

\* the state between two calls
Idle ==
    /\ pc = "idle"
    /\ password = None
    /\ include_hibp = FALSE
    /\ breached_offline = None
    /\ score = None
    /\ reasons = <<>>
    /\ breached_online = Null
    /\ hibp_count = Null
    /\ sha1_hash = <<>>
    /\ request = NoRequest
    /\ answer = NoAnswer
    /\ fired = {}
    /\ ops = <<>>
    /\ exception = None
    /\ result = None

Init ==
    /\ disk \in [Range(BREACHED_LIST_PATHS) -> Files]
    /\ Idle

----------------------------------------------------------------------------
(* assess_password                                                         *)

\* Call without the validation of lines 137-138
CallUnchecked(pw, hibp) ==
    /\ pc = "idle"
    /\ password' = pw
    /\ include_hibp' = hibp
    /\ pc' = "load"
    /\ exception' = None
    /\ UNCHANGED << disk, breached_offline, score, reasons, breached_online,
                    hibp_count, sha1_hash, request, answer, fired, ops,
                    result >>

\* lines 136-138: the call and its validation
Call(pw, hibp) ==
    /\ pc = "idle"
    /\ password' = pw
    /\ include_hibp' = hibp
    /\ IF pw = <<>>
       THEN pc' = "raised" /\ exception' = "ValueError"
       ELSE pc' = "load" /\ exception' = None
    /\ UNCHANGED << disk, breached_offline, score, reasons, breached_online,
                    hibp_count, sha1_hash, request, answer, fired, ops,
                    result >>

\* lines 140-141: load the corpus and match the password against it
LoadCorpus ==
    /\ pc = "load"
    /\ LET loaded == _load_breached_passwords(disk)
       IN  /\ ops' = ops \o loaded.ops
           /\ IF loaded.exc # None
              THEN /\ pc' = "raised"
                   /\ exception' = loaded.exc
                   /\ UNCHANGED breached_offline
              ELSE /\ pc' = "score"
                   /\ breached_offline' =
                          _offline_breach_match(password, loaded.breached)
                   /\ UNCHANGED exception
    /\ UNCHANGED << disk, password, include_hibp, score, reasons,
                    breached_online, hibp_count, sha1_hash, request, answer,
                    fired, result >>

\* score += inc; reasons.append(reason), when the signal fires
Bump(acc, fires, signal, inc, reason) ==
    IF fires
    THEN [score   |-> FAdd(acc.score, Dec(inc)),
          reasons |-> Append(acc.reasons, reason),
          fired   |-> acc.fired \cup {signal}]
    ELSE acc

\* reasons.append(reason) alone
Note(acc, notes, reason) ==
    IF notes THEN [acc EXCEPT !.reasons = Append(@, reason)] ELSE acc

\* ScoreLocal with the offline match blended in before the heuristics
ScoreOfflineFirst(pw, offline) ==
    LET length == Len(pw)
        s0 == [score |-> Dec(0), reasons |-> <<>>, fired |-> {}]
        s1 == Bump(s0, offline, "offline", 30, OfflineReason)
        s2 == Bump(s1, length < 8, "length<8", 40, TooShort)
        s3 == Bump(s2, length >= 8 /\ length < 12, "length<12", 20,
                   ShorterThanRec)
        s4 == Note(s3, length >= 12, LengthOk)
        s5 == Bump(s4, categories(pw) <= 2, "variety", 20, LimitedVariety)
        s6 == Note(s5, categories(pw) > 2, MultipleCats)
        s7 == Bump(s6, _contains_sequence(Lower(pw)), "sequence", 15,
                   SequenceReason)
        s8 == Bump(s7, _contains_repetition(pw), "repetition", 15,
                   RepetitionReason)
    IN  Bump(s8, _check_substitutions(pw), "substitution", 15, SubstReason)

\* lines 143-184
ScoreLocal(pw, offline) ==
    LET length == Len(pw)
        s0 == [score |-> Dec(0), reasons |-> <<>>, fired |-> {}]
        s1 == Bump(s0, length < 8, "length<8", 40, TooShort)
        s2 == Bump(s1, length >= 8 /\ length < 12, "length<12", 20,
                   ShorterThanRec)
        s3 == Note(s2, length >= 12, LengthOk)
        s4 == Bump(s3, categories(pw) <= 2, "variety", 20, LimitedVariety)
        s5 == Note(s4, categories(pw) > 2, MultipleCats)
        s6 == Bump(s5, _contains_sequence(Lower(pw)), "sequence", 15,
                   SequenceReason)
        s7 == Bump(s6, _contains_repetition(pw), "repetition", 15,
                   RepetitionReason)
        s8 == Bump(s7, _check_substitutions(pw), "substitution", 15,
                   SubstReason)
    IN  Bump(s8, offline, "offline", 30, OfflineReason)

Heuristics ==
    /\ pc = "score"
    /\ LET acc == ScoreLocal(password, breached_offline)
       IN  /\ score' = acc.score
           /\ reasons' = acc.reasons
           /\ fired' = acc.fired
    /\ breached_online' = Null
    /\ hibp_count' = Null
    /\ pc' = IF include_hibp THEN "hibp" ELSE "finish"
    /\ UNCHANGED << disk, password, include_hibp, breached_offline, sha1_hash,
                    request, answer, ops, exception, result >>

\* lines 188-189 and 118-123: hash the password and send the request
HibpRequest ==
    /\ pc = "hibp"
    /\ \E hex \in Sha1Hex(password) :
          /\ sha1_hash' = Upper(hex)
          /\ request' = HibpRequestOf(Upper(hex))
          /\ ops' = Append(ops, <<"urlopen", HibpRequestOf(Upper(hex)).url>>)
    /\ pc' = "wait"
    /\ UNCHANGED << disk, password, include_hibp, breached_offline, score,
                    reasons, breached_online, hibp_count, answer, fired,
                    exception, result >>

\* lines 190-196, from the pair _hibp_lookup returned
OnlineBlend(acc, found, count) ==
    IF found = Some(TRUE)
    THEN Bump(acc, TRUE, "online", 35, HibpFound)
    ELSE IF found = Some(FALSE) /\ count = Some(0)
    THEN Note(acc, TRUE, HibpNotFound)
    ELSE Note(acc, TRUE, HibpUnavailable)

\* lines 123-133 and 189-196: the answer arrives and is blended in
HibpResponse ==
    /\ pc = "wait"
    /\ \E out \in NetOutcomes :
          LET looked == _hibp_lookup(sha1_hash, out)
              acc == OnlineBlend([score |-> score, reasons |-> reasons,
                                  fired |-> fired],
                                 looked.found, looked.count)
          IN  /\ answer' = out
              /\ IF looked.exc # None
                 THEN /\ pc' = "raised"
                      /\ exception' = looked.exc
                      /\ UNCHANGED << breached_online, hibp_count, score,
                                      reasons, fired >>
                 ELSE /\ pc' = "finish"
                      /\ breached_online' = looked.found
                      /\ hibp_count' = looked.count
                      /\ score' = acc.score
                      /\ reasons' = acc.reasons
                      /\ fired' = acc.fired
                      /\ UNCHANGED exception
    /\ UNCHANGED << disk, password, include_hibp, breached_offline, sha1_hash,
                    request, ops, result >>

\* Clamp without the min
ClampMissing(s) == s

\* line 198
Clamp(s) == FMin(s, Dec(100))

\* lines 198-212: clamp, label, suggest, build the assessment
Finish ==
    /\ pc = "finish"
    /\ \E stream \in 1..MaxStreams :
          /\ score' = Clamp(score)
          /\ result' =
                [ password         |-> password,
                  risk_score       |-> Clamp(score),
                  label            |-> _format_risk_label(Clamp(score)),
                  reasons          |-> reasons,
                  suggestions      |-> _generate_suggestions(
                                           password, SuggestionCount, stream),
                  breached_offline |-> breached_offline,
                  breached_online  |-> breached_online,
                  hibp_count       |-> hibp_count ]
          /\ ops' = Append(ops, <<"secrets", 5 * SuggestionCount>>)
    /\ pc' = "done"
    /\ UNCHANGED << disk, password, include_hibp, breached_offline, reasons,
                    breached_online, hibp_count, sha1_hash, request, answer,
                    fired, exception >>

\* the caller has the assessment or the exception; the next call can start
Return ==
    /\ pc \in {"done", "raised"}
    /\ pc' = "idle"
    /\ password' = None
    /\ include_hibp' = FALSE
    /\ breached_offline' = None
    /\ score' = None
    /\ reasons' = <<>>
    /\ breached_online' = Null
    /\ hibp_count' = Null
    /\ sha1_hash' = <<>>
    /\ request' = NoRequest
    /\ answer' = NoAnswer
    /\ fired' = {}
    /\ ops' = <<>>
    /\ exception' = None
    /\ result' = None
    /\ UNCHANGED disk

Next ==
    \/ \E pw \in Passwords, hibp \in BOOLEAN : Call(pw, hibp)
    \/ LoadCorpus
    \/ Heuristics
    \/ HibpRequest
    \/ HibpResponse
    \/ Finish
    \/ Return

Spec == Init /\ [][Next]_vars

----------------------------------------------------------------------------
(* Properties                                                              *)

Returned == pc = "done"

\* C1: the risk_score of every returned assessment lies in [0.0, 1.0],
\* whatever the corpus and whatever the online lookup did.
RiskScoreInUnitInterval ==
    Returned =>
        /\ BigLeq(Dec(0), result.risk_score)
        /\ BigLeq(result.risk_score, Dec(100))

\* an assessment whose increments add up to more than 1.0 was returned
ClampedAssessmentReturned ==
    /\ Returned
    /\ {"length<8", "variety", "offline", "online"} \subseteq fired
    /\ result.risk_score = Dec(100)

\* C2: the label is the step function of risk_score with steps at 0.45 and
\* 0.75: low below 0.45, medium from 0.45 to below 0.75, high from 0.75.
LabelIsStepOfRiskScore ==
    Returned =>
        result.label =
            ( IF BigLess(result.risk_score, Dec(45)) THEN "low"
              ELSE IF BigLess(result.risk_score, Dec(75)) THEN "medium"
              ELSE "high" )

\* an assessment whose risk_score is exactly 0.75 was returned
ThresholdScoreReturned ==
    /\ Returned
    /\ result.risk_score = Dec(75)
    /\ result.label = "high"

\* a body with a line that is not SUFFIX:COUNT
Malformed(text) ==
    \E i \in 1..Len(splitlines(text)) :
        LET line  == splitlines(text)[i]
            parts == Split(line, ":")
        IN  /\ line # <<>>
            /\ \/ Len(parts) # 2
               \/ ~IsDigits(Strip(parts[Len(parts)]))

\* the remote lookup of the running call failed
LookupFailed ==
    \/ answer.kind \in NetFailures
    \/ answer.kind = "body" /\ Malformed(answer.text)

\* C3: when the online check is requested and the remote lookup fails in any
\* way, the call raises nothing and goes on with breached_online = False,
\* hibp_count = None and no online increment.
FailedLookupDegrades ==
    (include_hibp /\ LookupFailed) =>
        /\ pc # "raised"
        /\ exception = None
        /\ breached_online = Some(FALSE)
        /\ hibp_count = Null
        /\ "online" \notin fired

\* the strings that make up a request
RequestTexts(req) ==
    {req.url} \cup {h.name : h \in req.headers}
              \cup {h.value : h \in req.headers}

\* the request of the running call is the one any digest with the same
\* five-character prefix produces
SamePrefixSameRequest ==
    \A hex \in HexDigests :
        HashPrefix(Upper(hex)) = HashPrefix(sha1_hash)
            => HibpRequestOf(Upper(hex)) = request

\* C4 as stated: the request is the same for all digests with the same
\* prefix, and neither the plaintext password nor the 35-character suffix nor
\* the 40-character digest appears anywhere in it.
RequestNeverShowsPassword ==
    request # NoRequest =>
        /\ SamePrefixSameRequest
        /\ \A t \in RequestTexts(request) :
              /\ ~Contains(t, password)
              /\ ~Contains(t, HashSuffix(sha1_hash))
              /\ ~Contains(t, sha1_hash)

\* C4 as amended: the request is the same for all digests with the same
\* prefix, the suffix and the digest appear nowhere in it, and the plaintext
\* password appears in it only where it is part of the fixed text of the
\* request followed by the prefix.
RequestDependsOnPrefixOnly ==
    request # NoRequest =>
        /\ SamePrefixSameRequest
        /\ \A t \in RequestTexts(request) :
              /\ ~Contains(t, HashSuffix(sha1_hash))
              /\ ~Contains(t, sha1_hash)
              /\ Contains(t, password) =>
                    \/ Contains(UrlBase \o HashPrefix(sha1_hash), password)
                    \/ Contains(UserAgentName, password)
                    \/ Contains(UserAgent, password)

\* the request for "c@ca" is out, and "ba1a" has the same prefix
SharedPrefixRequestSent ==
    /\ pc = "wait"
    /\ password = <<"c","@","c","a">>
    /\ sha1_hash = Upper(HexB)
    /\ HashPrefix(Upper(HexA)) = HashPrefix(sha1_hash)
    /\ HexA # HexB

\* C5: a call with the empty string raises the validation error before any
\* other work: nothing is read, requested or drawn and nothing is returned.
EmptyPasswordRaisesFirst ==
    (pc # "idle" /\ password = <<>>) =>
        /\ pc = "raised"
        /\ exception = "ValueError"
        /\ ops = <<>>
        /\ request = NoRequest
        /\ reasons = <<>>
        /\ result = None

\* the empty string was passed with the online check requested
EmptyPasswordRejected ==
    /\ pc = "raised"
    /\ password = <<>>
    /\ include_hibp

\* the lookup of the returned assessment ran to its end
LookupCompleted == answer.kind = "body"

OnlineReasons == {HibpFound, HibpNotFound, HibpUnavailable}

\* C6: hibp_count is set only if breached_online is; without the online
\* check both are None and no online reason is given; with it breached_online
\* is a boolean and hibp_count is an integer exactly when the lookup completed
\* (0 when the password was not found).
OnlineFieldsConsistent ==
    Returned =>
        /\ result.hibp_count # Null => result.breached_online # Null
        /\ ~include_hibp =>
              /\ result.breached_online = Null
              /\ result.hibp_count = Null
              /\ Range(result.reasons) \cap OnlineReasons = {}
        /\ include_hibp =>
              /\ result.breached_online \in {Some(TRUE), Some(FALSE)}
              /\ result.hibp_count # Null <=> LookupCompleted
              /\ result.hibp_count # Null =>
                    result.hibp_count[1] \in Nat
              /\ (LookupCompleted /\ result.breached_online = Some(FALSE))
                    => result.hibp_count = Some(0)

\* an assessment was returned after urlopen raised URLError
UnavailableLookupReturned ==
    /\ Returned
    /\ include_hibp
    /\ answer.kind = "URLError"
    /\ result.hibp_count = Null

\* the place of a reason in the evaluation order
Rank(reason) ==
    CASE reason \in {TooShort, ShorterThanRec, LengthOk} -> 1
      [] reason \in {LimitedVariety, MultipleCats}       -> 2
      [] reason = SequenceReason                         -> 3
      [] reason = RepetitionReason                       -> 4
      [] reason = SubstReason                            -> 5
      [] reason = OfflineReason                          -> 6
      [] reason \in OnlineReasons                        -> 7

\* C7: reasons starts with one length reason and one variety reason, goes on
\* in the order sequence, repetition, substitution, offline breach with each
\* at most once, and ends with the online reason exactly when the online
\* check was requested.
ReasonsInEvaluationOrder ==
    Returned =>
        LET r == result.reasons
        IN  /\ Len(r) >= 2
            /\ Rank(r[1]) = 1
            /\ Rank(r[2]) = 2
            /\ \A i, j \in 1..Len(r) : i < j => Rank(r[i]) < Rank(r[j])
            /\ include_hibp <=> (\E i \in 1..Len(r) : r[i] \in OnlineReasons)
            /\ include_hibp => r[Len(r)] \in OnlineReasons

\* an assessment in which every signal gave its reason
AllReasonsReturned ==
    /\ Returned
    /\ Len(result.reasons) = 7

\* C8: suggestions is never empty and never holds the empty string.
SuggestionsNonEmpty ==
    Returned =>
        /\ result.suggestions # <<>>
        /\ \A i \in 1..Len(result.suggestions) : result.suggestions[i] # <<>>

\* an assessment with the default number of suggestions was returned
SuggestionsReturned ==
    /\ Returned
    /\ Len(result.suggestions) = SuggestionCount

\* the increment of each signal, in hundredths
Increment(signal) ==
    CASE signal = "length<8"     -> 40
      [] signal = "length<12"    -> 20
      [] signal = "variety"      -> 20
      [] signal = "sequence"     -> 15
      [] signal = "repetition"   -> 15
      [] signal = "substitution" -> 15
      [] signal = "offline"      -> 30
      [] signal = "online"       -> 35

RECURSIVE SumIncrements(_)
SumIncrements(signals) ==
    IF signals = {} THEN 0
    ELSE LET x == CHOOSE y \in signals : TRUE
         IN  Increment(x) + SumIncrements(signals \ {x})

\* "P@ssw0rd123" assessed with an empty corpus and no online check
ScenarioAssessed ==
    /\ Returned
    /\ password = <<"P","@","s","s","w","0","r","d","1","2","3">>
    /\ ~include_hibp
    /\ \A path \in DOMAIN disk : disk[path] = Missing

\* C9 as stated: the scenario's reasons include "Length meets recommended
\* minimum", the multiple-categories reason and the substitution reason, and
\* risk_score is the sum of the increments of the signals that fired.
ScenarioMeetsLength ==
    ScenarioAssessed =>
        /\ {LengthOk, MultipleCats, SubstReason} \subseteq Range(result.reasons)
        /\ result.risk_score = Dec(SumIncrements(fired))

\* C9 as amended: the password has 11 characters, so the length reason is
\* "Shorter than recommended (12+ characters)"; the reasons are that one, the
\* multiple-categories reason, the sequence reason and the substitution
\* reason, and risk_score is 0.2 + 0.15 + 0.15 = 0.5, the sum of the
\* increments of the signals that fired.
ScenarioShorterThanRecommended ==
    ScenarioAssessed =>
        /\ Len(password) = 11
        /\ result.reasons =
              <<ShorterThanRec, MultipleCats, SequenceReason, SubstReason>>
        /\ fired = {"length<12", "sequence", "substitution"}
        /\ result.risk_score = Dec(SumIncrements(fired))
        /\ result.risk_score = Dec(50)

\* C10: risk_score is min(1.0, sum of the increments of the fired signals).
RiskScoreIsClampedSum ==
    Returned =>
        result.risk_score =
            Dec(IF SumIncrements(fired) > 100 THEN 100
                ELSE SumIncrements(fired))


\* a line of the form SUFFIX:COUNT, 35 hex digits and a decimal count
HexChars == Range(DigitChars) \cup {"a","b","c","d","e","f"}
                              \cup {"A","B","C","D","E","F"}
IsRecord(line) ==
    LET parts == Split(line, ":")
    IN  /\ Len(parts) = 2
        /\ Len(parts[1]) = 35
        /\ \A i \in 1..35 : parts[1][i] \in HexChars
        /\ IsDigits(parts[2])

\* the answer is a body made of SUFFIX:COUNT records only
RecordsBody ==
    /\ answer.kind = "body"
    /\ \A i \in 1..Len(splitlines(answer.text)) :
          IsRecord(splitlines(answer.text)[i])

\* the records of the answer whose suffix is, but for case, that of the digest
MatchingRecords ==
    { i \in 1..Len(splitlines(answer.text)) :
        Lower(Split(splitlines(answer.text)[i], ":")[1])
            = Lower(HashSuffix(sha1_hash)) }

\* _hibp_lookup has returned its pair to assess_password
LookupReturned == pc \in {"finish", "done"} /\ answer.kind # "none"

CorpusOnDisk ==
    UNION { FileEntries(disk[path].text) :
              path \in { q \in DOMAIN disk : disk[q].kind = "text" } }

\* the password, trimmed and lower-cased, is an entry of corpus, or a
\* non-empty entry of corpus is part of the lower-cased password
MatchesCorpus(pw, corpus) ==
    \/ Lower(Strip(pw)) \in corpus
    \/ \E entry \in corpus : entry # <<>> /\ Contains(Lower(pw), entry)

\* the corpus has been loaded and matched against the password
Matched == pc \in {"score", "hibp", "wait", "finish", "done"}

\* the heuristics and the offline match are blended, nothing else yet
Blended == pc = "hibp" \/ (pc = "finish" /\ ~include_hibp)

\* C12: breached_offline is true exactly when the trimmed, lower-cased
\* password is a corpus entry or a non-empty corpus entry is part of the
\* lower-cased password; a match adds 0.3 to the unclamped score and gives the
\* offline reason; an empty corpus matches nothing and a corpus holding only
\* the empty string matches nothing by substring.
OfflineMatchIsEqualityOrSubstring ==
    /\ Matched =>
          /\ breached_offline = MatchesCorpus(password, CorpusOnDisk)
          /\ CorpusOnDisk = {} => ~breached_offline
          /\ _offline_breach_match(password, {<<>>})
                = (Lower(Strip(password)) = <<>>)
    /\ Blended =>
          /\ breached_offline <=> "offline" \in fired
          /\ breached_offline <=> OfflineReason \in Range(reasons)
          /\ score = IF breached_offline
                     THEN FAdd(ScoreLocal(password, FALSE).score, Dec(30))
                     ELSE ScoreLocal(password, FALSE).score

\* " Ab " was assessed against a corpus whose file holds the line " Ab "
VerbatimEntryMatched ==
    /\ pc = "done"
    /\ password = <<" ","A","b"," ">>
    /\ <<"a","b">> \in CorpusOnDisk
    /\ result.breached_offline
    /\ OfflineReason \in Range(result.reasons)


\* C13: loading the corpus never fails the call: a file that is missing or
\* cannot be read is skipped, and breached_offline reflects the entries of the
\* files that did load.
CorpusLoadNeverFails ==
    /\ exception # "OSError"
    /\ (pc = "raised" /\ password # <<>>) => answer.kind # "none"
    /\ Matched => breached_offline = MatchesCorpus(password, CorpusOnDisk)

====
